---- MODULE Spec2Model ----
(***************************************************************************)
(* A model of s3proxy: the credential cache of src/credentials.rs          *)
(* (CredentialsManager::get_credentials, a single-flight cache built on a  *)
(* tokio watch channel), the content cache of src/s3_handler.rs            *)
(* (S3Handler::get_object, a disk cache filled by a streaming tee), and    *)
(* the gateway's front: route_request of src/router.rs with head_object,   *)
(* list_objects and the size cache they share.                             *)
(*                                                                         *)
(* Every request runs as its own task on a multi-threaded runtime, so two  *)
(* tasks interleave at every lock acquisition and at every await.  Each    *)
(* action below is one such step of one task.                              *)
(***************************************************************************)
EXTENDS Integers, Sequences, FiniteSets, TLC

(***************************************************************************)
(* Bounds of the model.                                                    *)
(***************************************************************************)
NCalls == 3          \* get_credentials calls in one run
NTokens == 2         \* distinct identity tokens
MaxTime == 2         \* the clock runs from 0 to MaxTime
NGets == 2           \* get_object calls in one run
ObjLen == 2          \* bytes of the backend object
NReqs == 2           \* inbound requests in one run
MaxChunks == 1       \* chunks a /stream task sends in one run

Calls == 1..NCalls
Tokens == 1..NTokens
Expirations == 1..MaxTime   \* expiration stamps a federation response can carry

VARIABLES
    now,          \* Utc::now()
    cache,        \* CredentialsManager.cache: token hash -> slot (0: no entry)
    chanVal,      \* the value of the watch channel call c created
    cpc,          \* where each get_credentials call stands
    ctok,         \* the token each call was given
    item,         \* the slot a call cloned out of the map (its Some(item) arm)
    cres,         \* what the call returned
    fedCalls,     \* history: Credentials::from_token invocations per token
    fedResolved,  \* history: from_token invocations that have returned, per token
    fedOut,       \* history: what from_token returned to call c
    cause,        \* history: the credentials a call last saw expired (0: none)
    servedBy,     \* history: the slot a waiter's result came from (0: none)
    retNow,       \* history: the clock when the call returned
    credReaders,  \* the calls holding a read guard of the cache map
    credWriter    \* the call holding the write guard of the cache map (0: none)

credVars == <<now, cache, chanVal, cpc, ctok, item, cres,
              fedCalls, fedResolved, fedOut, cause, servedBy, retNow,
              credReaders, credWriter>>

\* The state of the content cache (described with S3Handler::get_object below).
VARIABLES
    fileData,     \* inode -> its bytes
    tmpName,      \* data/.<hash>: file name -> inode (0: no such file)
    finalName,    \* data/<hash>: file name -> inode (0: no such file)
    gpc,          \* where each get_object call (and its spawned tee) stands
    gobj,         \* the (bucket, key, range) of the call
    bans,         \* the backend's answer to the call's GET
    fh,           \* the inode of the call's open file (0: none)
    fpos,         \* the offset of the call's file handle
    wbuf,         \* the write the call's File has buffered and not yet performed
    werr,         \* a buffered write of the call's File has failed
    recvd,        \* bytes of the backend stream the tee has taken
    connected,    \* the response consumer is still there
    gstatus,      \* the status of the gateway's response (0: none yet)
    gcl,          \* the content-length header of the gateway's response
    gbody,        \* the bytes the response has delivered
    path,         \* history: "hit" or "miss", decided by the metadata check
    backendGets,  \* history: backend GETs issued per file name
    promoted,     \* history: the call renamed the temporary file to the final name
    peers         \* history: the same-object calls in flight at the metadata check

objVars == <<fileData, tmpName, finalName, gpc, gobj, bans, fh, fpos, wbuf, werr, recvd,
             connected, gstatus, gcl, gbody, path, backendGets, promoted,
             peers>>

\* The state of the gateway's front (described with route_request below).
VARIABLES
    rpc,          \* where each inbound request stands
    req,          \* the request: method, path, query, headers
    route,        \* history: the arm of route_request's match the request took
    resp,         \* the response returned for the request
    size_cache,   \* S3Handler.size_cache: key -> content-length
    sizeReaders,  \* the requests holding a read guard of size_cache
    sizeWriter,   \* the request holding the write guard of size_cache (0: none)
    hans,         \* the backend's answer to the request's HEAD or LIST
    calls,        \* history: the collaborators the request called, in order
    streamed      \* chunks the /stream task of the request has sent

gateVars == <<rpc, req, route, resp, size_cache, sizeReaders, sizeWriter, hans,
              calls, streamed>>

vars == <<credVars, objVars, gateVars>>

(***************************************************************************)
(* Credentials and results.  A Credentials value is identified by the      *)
(* exchange that produced it (the federation service issues a new key      *)
(* pair on every call) and carries its expiration.                         *)
(***************************************************************************)
NoCreds == [id |-> 0, exp |-> 0]
Credentials(c, e) == [id |-> c, exp |-> e]

NoResult == [kind |-> "None", creds |-> NoCreds, status |-> 0]
Ok(cr) == [kind |-> "Ok", creds |-> cr, status |-> 0]
RequestFailed(st) == [kind |-> "RequestFailed", creds |-> NoCreds, status |-> st]
CredentialsParse == [kind |-> "CredentialsParse", creds |-> NoCreds, status |-> 0]
Panic == [kind |-> "Panic", creds |-> NoCreds, status |-> 0]

\* The federation endpoint's answers: credentials, a non-2xx status, a
\* transport failure (no status: 0), or a 2xx body that does not parse.
FedStatuses == {0, 403}
FedAnswers ==
    {[kind |-> "Ok", exp |-> e, status |-> 200] : e \in Expirations}
    \cup {[kind |-> "Err", exp |-> 0, status |-> st] : st \in FedStatuses}
    \cup {[kind |-> "Malformed", exp |-> 0, status |-> 200]}

\* A variant of Hash that tells no token from another: every token falls
\* under the same key of the map.
HashOfNothing(t) == <<"blake3", 0>>

\* blake3::hash(token): a collision-free digest of the token.
Hash(t) == <<"blake3", t>>
Hashes == {Hash(t) : t \in Tokens}

\* Credentials::is_expired
is_expired(cr, t) == cr.exp < t

\* tokio watch: the receivers of channel ch are the one stored in the map
\* (while an entry holds it) and one per task that cloned it out of the map.
receiver_count(ch) ==
    (IF \E h \in Hashes : cache[h] = ch THEN 1 ELSE 0)
    + Cardinality({c \in Calls : item[c] = ch})

\* The sender of channel ch lives in the task that created it until that
\* task leaves get_credentials.
sender_alive(ch) == cpc[ch] \in {"inserted", "fetch"}

CredInit ==
    /\ now = 0
    /\ cache = [h \in Hashes |-> 0]
    /\ chanVal = [c \in Calls |-> NoCreds]
    /\ cpc = [c \in Calls |-> "idle"]
    /\ ctok = [c \in Calls |-> 1]
    /\ item = [c \in Calls |-> 0]
    /\ cres = [c \in Calls |-> NoResult]
    /\ fedCalls = [t \in Tokens |-> 0]
    /\ fedResolved = [t \in Tokens |-> 0]
    /\ fedOut = [c \in Calls |-> NoResult]
    /\ cause = [c \in Calls |-> 0]
    /\ servedBy = [c \in Calls |-> 0]
    /\ retNow = [c \in Calls |-> 0]
    /\ credReaders = {}
    /\ credWriter = 0

\* A request arrives and calls get_credentials(token).  Calls are numbered
\* in the order they arrive.
GetCredentials(c, t) ==
    /\ cpc[c] = "idle"
    /\ \A d \in Calls : d < c => cpc[d] # "idle"
    /\ cpc' = [cpc EXCEPT ![c] = "read"]
    /\ ctok' = [ctok EXCEPT ![c] = t]
    /\ UNCHANGED <<now, cache, chanVal, item, cres, fedCalls, fedResolved,
                   fedOut, cause, servedBy, retNow, credReaders, credWriter>>
    /\ UNCHANGED <<objVars, gateVars>>

\* let item = self.cache.read().unwrap().get(&hash).cloned();
\* the read guard is taken (no writer holds the lock) and the entry under
\* the hash, if any, is cloned.
CacheRead(c) ==
    /\ cpc[c] = "read"
    /\ credWriter = 0
    /\ credReaders' = credReaders \cup {c}
    /\ item' = [item EXCEPT ![c] = cache[Hash(ctok[c])]]
    /\ cpc' = [cpc EXCEPT ![c] = "got"]
    /\ UNCHANGED <<now, cache, chanVal, ctok, cres, fedCalls, fedResolved,
                   fedOut, cause, servedBy, retNow, credWriter>>
    /\ UNCHANGED <<objVars, gateVars>>

\* None arm: a new watch channel, and under the write guard its receiver
\* is inserted under the hash (replacing whatever is there).
CacheInsert(c) ==
    /\ cpc[c] = "insert"
    /\ credWriter = 0 /\ credReaders = {}
    /\ credWriter' = c
    /\ cache' = [cache EXCEPT ![Hash(ctok[c])] = c]
    /\ chanVal' = [chanVal EXCEPT ![c] = NoCreds]
    /\ cpc' = [cpc EXCEPT ![c] = "inserted"]
    /\ UNCHANGED <<now, ctok, item, cres, fedCalls, fedResolved, fedOut, cause,
                   servedBy, retNow, credReaders>>
    /\ UNCHANGED <<objVars, gateVars>>

\* Credentials::from_token: a non-2xx answer and a transport failure are
\* RequestFailed; a 2xx body that does not parse panics in unwrap().
from_token(c, ans) ==
    CASE ans.kind = "Ok" -> Ok(Credentials(c, ans.exp))
      [] ans.kind = "Err" -> RequestFailed(ans.status)
      [] OTHER -> Panic

\* from_token returns to the fetching task: on Ok the value is sent on the
\* channel (send fails, and unwrap panics, when no receiver is left) and
\* returned; on Err the error is returned and the sender is dropped.
FromTokenReturn(c, ans) ==
    /\ cpc[c] = "fetch"
    /\ LET r == from_token(c, ans)
           sent == r.kind = "Ok" /\ receiver_count(c) > 0
           out == IF r.kind = "Ok" /\ ~sent THEN Panic ELSE r
       IN /\ chanVal' = [chanVal EXCEPT ![c] = IF sent THEN r.creds ELSE @]
          /\ cres' = [cres EXCEPT ![c] = out]
          /\ cpc' = [cpc EXCEPT ![c] = IF out.kind = "Panic" THEN "panicked" ELSE "done"]
          /\ fedOut' = [fedOut EXCEPT ![c] = r]
    /\ fedResolved' = [fedResolved EXCEPT ![ctok[c]] = @ + 1]
    /\ retNow' = [retNow EXCEPT ![c] = now]
    /\ UNCHANGED <<now, cache, ctok, item, fedCalls, cause, servedBy,
                   credReaders, credWriter>>
    /\ UNCHANGED <<objVars, gateVars>>

\* Some(item) arm: receiver.wait_for(|c| c.is_some()) returns once the slot
\* holds a value (Ok) or its sender is gone (Err), and the match decides.
WaitFor(c) ==
    /\ cpc[c] = "wait"
    /\ LET ch == item[c]
           v == chanVal[ch]
       IN /\ v # NoCreds \/ ~sender_alive(ch)
          /\ IF v = NoCreds
               THEN /\ cres' = [cres EXCEPT ![c] = CredentialsParse]
                    /\ cpc' = [cpc EXCEPT ![c] = "done"]
                    /\ item' = [item EXCEPT ![c] = 0]
                    /\ servedBy' = [servedBy EXCEPT ![c] = ch]
                    /\ retNow' = [retNow EXCEPT ![c] = now]
                    /\ cause' = cause
               ELSE IF is_expired(v, now)
               THEN /\ cpc' = [cpc EXCEPT ![c] = "remove"]
                    /\ cause' = [cause EXCEPT ![c] = v.id]
                    /\ UNCHANGED <<cres, item, servedBy, retNow>>
               ELSE /\ cres' = [cres EXCEPT ![c] = Ok(v)]
                    /\ cpc' = [cpc EXCEPT ![c] = "done"]
                    /\ item' = [item EXCEPT ![c] = 0]
                    /\ servedBy' = [servedBy EXCEPT ![c] = ch]
                    /\ retNow' = [retNow EXCEPT ![c] = now]
                    /\ cause' = cause
    /\ UNCHANGED <<now, cache, chanVal, ctok, fedCalls, fedResolved, fedOut,
                   credReaders, credWriter>>
    /\ UNCHANGED <<objVars, gateVars>>

\* self.cache.write().unwrap().remove(&hash) under the write guard.
CacheRemove(c) ==
    /\ cpc[c] = "remove"
    /\ credWriter = 0 /\ credReaders = {}
    /\ credWriter' = c
    /\ cache' = [cache EXCEPT ![Hash(ctok[c])] = 0]
    /\ item' = [item EXCEPT ![c] = 0]
    /\ cpc' = [cpc EXCEPT ![c] = "removed"]
    /\ UNCHANGED <<now, chanVal, ctok, cres, fedCalls, fedResolved, fedOut,
                   cause, servedBy, retNow, credReaders>>
    /\ UNCHANGED <<objVars, gateVars>>

\* A variant of DropGuard in which the write guard of the insert is bound
\* to a local of the None arm: it is still held when from_token is awaited.
KeepInsertGuard(c) ==
    /\ cpc[c] \in {"got", "inserted", "removed"}
    /\ credReaders' = credReaders \ {c}
    /\ credWriter' = IF credWriter = c /\ cpc[c] # "inserted" THEN 0 ELSE credWriter
    /\ cpc' = [cpc EXCEPT ![c] =
           CASE cpc[c] = "got" -> IF item[c] = 0 THEN "insert" ELSE "wait"
             [] cpc[c] = "inserted" -> "fetch"
             [] OTHER -> "read"]
    /\ fedCalls' = [fedCalls EXCEPT ![ctok[c]] = IF cpc[c] = "inserted" THEN @ + 1 ELSE @]
    /\ UNCHANGED <<now, cache, chanVal, ctok, item, cres, fedResolved, fedOut,
                   cause, servedBy, retNow>>
    /\ UNCHANGED <<objVars, gateVars>>

\* The end of a statement that took a guard of the map: the temporary
\* guard is dropped and the call goes on: after the read to its arm of the
\* match, after the insert into from_token (which is awaited), after the
\* remove to the top of the loop.
DropGuard(c) ==
    /\ cpc[c] \in {"got", "inserted", "removed"}
    /\ credReaders' = credReaders \ {c}
    /\ credWriter' = IF credWriter = c THEN 0 ELSE credWriter
    /\ cpc' = [cpc EXCEPT ![c] =
           CASE cpc[c] = "got" -> IF item[c] = 0 THEN "insert" ELSE "wait"
             [] cpc[c] = "inserted" -> "fetch"
             [] OTHER -> "read"]
    /\ fedCalls' = [fedCalls EXCEPT ![ctok[c]] = IF cpc[c] = "inserted" THEN @ + 1 ELSE @]
    /\ UNCHANGED <<now, cache, chanVal, ctok, item, cres, fedResolved, fedOut,
                   cause, servedBy, retNow>>
    /\ UNCHANGED <<objVars, gateVars>>

\* Time passes.
Tick ==
    /\ now < MaxTime
    /\ now' = now + 1
    /\ UNCHANGED <<cache, chanVal, cpc, ctok, item, cres, fedCalls,
                   fedResolved, fedOut, cause, servedBy, retNow,
                   credReaders, credWriter>>
    /\ UNCHANGED <<objVars, gateVars>>

CredNext ==
    \/ \E c \in Calls, t \in Tokens : GetCredentials(c, t)
    \/ \E c \in Calls : CacheRead(c)
    \/ \E c \in Calls : CacheInsert(c)
    \/ \E c \in Calls, ans \in FedAnswers : FromTokenReturn(c, ans)
    \/ \E c \in Calls : WaitFor(c)
    \/ \E c \in Calls : CacheRemove(c)
    \/ \E c \in Calls : DropGuard(c)
    \/ Tick


(***************************************************************************)
(* The content cache: S3Handler::get_object.                               *)
(*                                                                         *)
(* The disk is a set of inodes (a byte sequence each) and two directories  *)
(* of names: data/.<hash> (temporary) and data/<hash> (final).  A file     *)
(* handle is an inode and an offset of its own.  Inode g is the one call g *)
(* created; 0 is "no inode".                                               *)
(***************************************************************************)
Gets == 1..NGets

\* The requests of the model: (bucket, key, Range header value or "").
Objects == {<<"b", "k", "">>, <<"b", "k", "bytes=0-0">>}

\* S3Handler::hash_filename: the SHA-256 (collision-free) of the formatted
\* string "{bucket}/{key}/{range}".
hash_filename(bucket, key, range) ==
    <<"sha256", bucket \o "/" \o key \o "/" \o range>>
Fname(o) == hash_filename(o[1], o[2], o[3])
Fnames == {Fname(o) : o \in Objects}

\* What the backend holds: one immutable object of ObjLen bytes 1, 2, ...;
\* an error answer carries a one-byte error document.
FullObject == [i \in 1..ObjLen |-> i]
ObjBody(o) == IF o[3] = "" THEN FullObject ELSE SubSeq(FullObject, 1, 1)
ErrBody == <<9>>

\* The backend's answers to a signed GET: a transport failure (Err from
\* execute), or a response (Ok from execute, whatever its status) with or
\* without a content-length header.
BackendAnswers(o) ==
    {[kind |-> "transport", status |-> 0, hasCl |-> FALSE, body |-> <<>>],
     [kind |-> "resp", status |-> 200, hasCl |-> TRUE, body |-> ObjBody(o)],
     [kind |-> "resp", status |-> 200, hasCl |-> FALSE, body |-> ObjBody(o)],
     [kind |-> "resp", status |-> 404, hasCl |-> TRUE, body |-> ErrBody]}
AllBackendAnswers == UNION {BackendAnswers(o) : o \in Objects}
NoAnswer == [kind |-> "none", status |-> 0, hasCl |-> FALSE, body |-> <<>>]

\* A write of `bytes` at offset `pos` of a file holding `data`: bytes past
\* the end extend the file, a gap before `pos` reads as zeros.
WriteAt(data, pos, bytes) ==
    LET end == IF pos + Len(bytes) > Len(data) THEN pos + Len(bytes) ELSE Len(data)
    IN [i \in 1..end |->
          IF i > pos /\ i <= pos + Len(bytes) THEN bytes[i - pos]
          ELSE IF i <= Len(data) THEN data[i]
          ELSE 0]

\* No buffered write.
NoWrite == [ino |-> 0, pos |-> 0, bytes |-> <<>>]

\* A call that has arrived and whose miss path (if it takes it) is not over.
InFlight(g) == gpc[g] \in {"meta", "request", "create", "tee"}

ObjInit ==
    /\ fileData = [g \in Gets |-> <<>>]
    /\ tmpName = [f \in Fnames |-> 0]
    /\ finalName = [f \in Fnames |-> 0]
    /\ gpc = [g \in Gets |-> "idle"]
    /\ gobj = [g \in Gets |-> <<"b", "k", "">>]
    /\ bans = [g \in Gets |-> NoAnswer]
    /\ fh = [g \in Gets |-> 0]
    /\ fpos = [g \in Gets |-> 0]
    /\ wbuf = [g \in Gets |-> NoWrite]
    /\ werr = [g \in Gets |-> FALSE]
    /\ recvd = [g \in Gets |-> 0]
    /\ connected = [g \in Gets |-> TRUE]
    /\ gstatus = [g \in Gets |-> 0]
    /\ gcl = [g \in Gets |-> 0]
    /\ gbody = [g \in Gets |-> <<>>]
    /\ path = [g \in Gets |-> "none"]
    /\ backendGets = [f \in Fnames |-> 0]
    /\ promoted = [g \in Gets |-> FALSE]
    /\ peers = [g \in Gets |-> {}]

\* A GET request is routed to get_object.  Calls are numbered in the order
\* they arrive.
GetObject(g, o) ==
    /\ gpc[g] = "idle"
    /\ \A d \in Gets : d < g => gpc[d] # "idle"
    /\ gpc' = [gpc EXCEPT ![g] = "meta"]
    /\ gobj' = [gobj EXCEPT ![g] = o]
    /\ UNCHANGED <<fileData, tmpName, finalName, bans, fh, fpos, wbuf, werr, recvd,
                   connected, gstatus, gcl, gbody, path, backendGets,
                   promoted, peers>>
    /\ UNCHANGED <<credVars, gateVars>>

\* tokio::fs::metadata("data/<hash>"): on Ok the hit path takes the file's
\* length; otherwise the signed GET goes out to the backend.
Metadata(g) ==
    /\ gpc[g] = "meta"
    /\ LET f == Fname(gobj[g])
           hit == finalName[f] # 0
       IN /\ gpc' = [gpc EXCEPT ![g] = IF hit THEN "open" ELSE "request"]
          /\ path' = [path EXCEPT ![g] = IF hit THEN "hit" ELSE "miss"]
          /\ gcl' = [gcl EXCEPT ![g] = IF hit THEN Len(fileData[finalName[f]]) ELSE @]
          /\ backendGets' = [backendGets EXCEPT ![f] = IF hit THEN @ ELSE @ + 1]
          /\ peers' = [peers EXCEPT ![g] =
                 {p \in Gets \ {g} : gobj[p] = gobj[g] /\ InFlight(p)}]
    /\ UNCHANGED <<fileData, tmpName, finalName, gobj, bans, fh, fpos, wbuf, werr, recvd,
                   connected, gstatus, gbody, promoted>>
    /\ UNCHANGED <<credVars, gateVars>>

\* Hit path: File::open("data/<hash>") and the 200 response whose
\* content-length is the length metadata reported.
OpenFinal(g) ==
    /\ gpc[g] = "open"
    /\ fh' = [fh EXCEPT ![g] = finalName[Fname(gobj[g])]]
    /\ gstatus' = [gstatus EXCEPT ![g] = 200]
    /\ gpc' = [gpc EXCEPT ![g] = "reading"]
    /\ UNCHANGED <<fileData, tmpName, finalName, gobj, bans, fpos, wbuf, werr, recvd,
                   connected, gcl, gbody, path, backendGets, promoted, peers>>
    /\ UNCHANGED <<credVars, gateVars>>

\* Hit path: the ReaderStream is drained into the response and the file
\* is closed.
ReadBody(g) ==
    /\ gpc[g] = "reading"
    /\ gbody' = [gbody EXCEPT ![g] = fileData[fh[g]]]
    /\ gpc' = [gpc EXCEPT ![g] = "done"]
    /\ fh' = [fh EXCEPT ![g] = 0]
    /\ UNCHANGED <<fileData, tmpName, finalName, gobj, bans, fpos, wbuf, werr, recvd,
                   connected, gstatus, gcl, path, backendGets, promoted, peers>>
    /\ UNCHANGED <<credVars, gateVars>>

\* S3Handler::handle_sdk_error: the error's status, or 500, and no body.
handle_sdk_error(ans) == IF ans.status # 0 THEN ans.status ELSE 500

\* Miss path: self.request(GET ...).await returns.  Err (a transport
\* failure) is answered by handle_sdk_error; Ok (a response of any status)
\* goes on: its content-length header is unwrapped (a panic when absent).
BackendAnswer(g, ans) ==
    /\ gpc[g] = "request"
    /\ ans \in BackendAnswers(gobj[g])
    /\ bans' = [bans EXCEPT ![g] = ans]
    /\ IF ans.kind = "transport"
         THEN /\ gstatus' = [gstatus EXCEPT ![g] = handle_sdk_error(ans)]
              /\ gpc' = [gpc EXCEPT ![g] = "done"]
              /\ gcl' = gcl
         ELSE IF ~ans.hasCl
         THEN /\ gpc' = [gpc EXCEPT ![g] = "panicked"]
              /\ UNCHANGED <<gstatus, gcl>>
         ELSE /\ gpc' = [gpc EXCEPT ![g] = "create"]
              /\ gcl' = [gcl EXCEPT ![g] = Len(ans.body)]
              /\ gstatus' = gstatus
    /\ UNCHANGED <<fileData, tmpName, finalName, gobj, fh, fpos, wbuf, werr, recvd,
                   connected, gbody, path, backendGets, promoted, peers>>
    /\ UNCHANGED <<credVars, gateVars>>

\* File::create("data/.<hash>") opens the temporary name, truncating the
\* file when it exists and creating it otherwise; the tee is spawned and
\* the 200 response with the backend's content-length is returned.
FileCreate(g) ==
    /\ gpc[g] = "create"
    /\ LET f == Fname(gobj[g])
           ino == IF tmpName[f] # 0 THEN tmpName[f] ELSE g
       IN /\ tmpName' = [tmpName EXCEPT ![f] = ino]
          /\ fileData' = [fileData EXCEPT ![ino] = <<>>]
          /\ fh' = [fh EXCEPT ![g] = ino]
    /\ fpos' = [fpos EXCEPT ![g] = 0]
    /\ gstatus' = [gstatus EXCEPT ![g] = 200]
    /\ gpc' = [gpc EXCEPT ![g] = "tee"]
    /\ UNCHANGED <<finalName, gobj, bans, recvd, connected, gcl, gbody, path,
                   backendGets, promoted, peers>>
    /\ UNCHANGED <<wbuf, werr>>
    /\ UNCHANGED <<credVars, gateVars>>

\* The response consumer goes away while the tee runs.
ClientDisconnect(g) ==
    /\ gpc[g] = "tee"
    /\ connected[g]
    /\ connected' = [connected EXCEPT ![g] = FALSE]
    /\ UNCHANGED <<fileData, tmpName, finalName, gpc, gobj, bans, fh, fpos, wbuf, werr,
                   recvd, gstatus, gcl, gbody, path, backendGets, promoted,
                   peers>>
    /\ UNCHANGED <<credVars, gateVars>>

\* file.write(&bytes) on a tokio File that accepts the first k bytes of
\* the chunk: the bytes are copied into the File's buffer, the write itself
\* is handed to a blocking thread, and write returns Ok(k) at once.
FileWrite(g, bytes, k) == [ino |-> fh[g], pos |-> fpos[g], bytes |-> SubSeq(bytes, 1, k)]

\* The tee task is over: its file handle and its stream are dropped.
CloseTask(g) ==
    /\ fh' = [fh EXCEPT ![g] = 0]
    /\ fpos' = [fpos EXCEPT ![g] = 0]
    /\ recvd' = [recvd EXCEPT ![g] = 0]

\* The tee task ends in a panic (an unwrap on Err inside the loop): the
\* task is gone, the names on disk stay as they are.
TeeAbort(g) ==
    /\ gpc' = [gpc EXCEPT ![g] = "aborted"]
    /\ UNCHANGED <<tmpName, finalName, promoted>>

\* One turn of the tee's loop with a chunk of n bytes from the backend:
\* try_join!(sender.send_data(chunk), file.write(chunk)).unwrap().
\* send_data fails when the consumer is gone.  file.write first waits for
\* the File's buffered write to be performed; it returns that write's error
\* if it failed (wr = "err"), and otherwise buffers k bytes (1 <= k <= n)
\* of this chunk (wr = "ok").  When send_data fails, try_join! may return
\* before the write is polled (wr = "skip").
TeeChunk(g, n, wr, k) ==
    /\ gpc[g] = "tee"
    /\ recvd[g] < Len(bans[g].body)
    /\ n \in 1..(Len(bans[g].body) - recvd[g])
    /\ k \in 1..n
    /\ wr = "skip" => ~connected[g]
    /\ wr # "skip" => wbuf[g] = NoWrite /\ (wr = "err" <=> werr[g])
    /\ wr # "ok" => k = n
    /\ LET chunk == SubSeq(bans[g].body, recvd[g] + 1, recvd[g] + n) IN
         /\ gbody' = [gbody EXCEPT ![g] = IF connected[g] THEN @ \o chunk ELSE @]
         /\ wbuf' = [wbuf EXCEPT ![g] = IF wr = "ok" THEN FileWrite(g, chunk, k) ELSE @]
         /\ IF connected[g] /\ wr = "ok"
              THEN /\ recvd' = [recvd EXCEPT ![g] = @ + n]
                   /\ fpos' = [fpos EXCEPT ![g] = @ + k]
                   /\ UNCHANGED <<gpc, fh, tmpName, finalName, promoted>>
              ELSE /\ TeeAbort(g)
                   /\ CloseTask(g)
    /\ UNCHANGED <<fileData, werr, gobj, bans, connected, gstatus, gcl, path,
                   backendGets, peers>>
    /\ UNCHANGED <<credVars, gateVars>>

\* The blocking thread performs the buffered write of call g's File (all of
\* it, at the handle's offset) or fails; a failure is kept in the File and
\* reported by its next write.  The buffered write outlives the tee task.
BlockingWrite(g, ok) ==
    /\ wbuf[g] # NoWrite
    /\ wbuf' = [wbuf EXCEPT ![g] = NoWrite]
    /\ IF ok
         THEN /\ fileData' = [fileData EXCEPT ![wbuf[g].ino] =
                                 WriteAt(@, wbuf[g].pos, wbuf[g].bytes)]
              /\ werr' = werr
         ELSE /\ werr' = [werr EXCEPT ![g] = TRUE]
              /\ fileData' = fileData
    /\ UNCHANGED <<tmpName, finalName, gpc, gobj, bans, fh, fpos, recvd,
                   connected, gstatus, gcl, gbody, path, backendGets, promoted,
                   peers>>
    /\ UNCHANGED <<credVars, gateVars>>

\* The backend stream yields Err before its end: buf.unwrap() panics.
StreamError(g) ==
    /\ gpc[g] = "tee"
    /\ recvd[g] < Len(bans[g].body)
    /\ TeeAbort(g)
    /\ CloseTask(g)
    /\ UNCHANGED <<fileData, gobj, bans, connected, gstatus, gcl, gbody, path,
                   backendGets, peers>>
    /\ UNCHANGED <<wbuf, werr>>
    /\ UNCHANGED <<credVars, gateVars>>

\* A variant of Rename whose target is the temporary name again: nothing
\* is ever published under the final name.
RenameOntoItself(g) ==
    LET f == Fname(gobj[g]) IN
      IF tmpName[f] # 0
        THEN /\ promoted' = [promoted EXCEPT ![g] = TRUE]
             /\ gpc' = [gpc EXCEPT ![g] = "done"]
             /\ UNCHANGED <<tmpName, finalName>>
        ELSE /\ gpc' = [gpc EXCEPT ![g] = "panicked"]
             /\ UNCHANGED <<tmpName, finalName, promoted>>

\* tokio::fs::rename("data/.<hash>", "data/<hash>"): the temporary name's
\* inode becomes the final name's, replacing what was there; Err (and the
\* unwrap's panic) when the temporary name does not exist.
Rename(g) ==
    LET f == Fname(gobj[g]) IN
      IF tmpName[f] # 0
        THEN /\ finalName' = [finalName EXCEPT ![f] = tmpName[f]]
             /\ tmpName' = [tmpName EXCEPT ![f] = 0]
             /\ promoted' = [promoted EXCEPT ![g] = TRUE]
             /\ gpc' = [gpc EXCEPT ![g] = "done"]
        ELSE /\ gpc' = [gpc EXCEPT ![g] = "panicked"]
             /\ UNCHANGED <<tmpName, finalName, promoted>>

\* The backend stream ends (next() is None): the loop is left and the
\* temporary file is renamed to the final name.
StreamEnd(g) ==
    /\ gpc[g] = "tee"
    /\ recvd[g] = Len(bans[g].body)
    /\ Rename(g)
    /\ CloseTask(g)
    /\ UNCHANGED <<fileData, gobj, bans, connected, gstatus, gcl, gbody, path,
                   backendGets, peers>>
    /\ UNCHANGED <<wbuf, werr>>
    /\ UNCHANGED <<credVars, gateVars>>

ObjNext ==
    \/ \E g \in Gets, o \in Objects : GetObject(g, o)
    \/ \E g \in Gets : Metadata(g)
    \/ \E g \in Gets : OpenFinal(g)
    \/ \E g \in Gets : ReadBody(g)
    \/ \E g \in Gets, ans \in AllBackendAnswers : BackendAnswer(g, ans)
    \/ \E g \in Gets : FileCreate(g)
    \/ \E g \in Gets : ClientDisconnect(g)
    \/ \E g \in Gets, n \in 1..ObjLen, k \in 1..ObjLen, wr \in {"ok", "err", "skip"} :
           TeeChunk(g, n, wr, k)
    \/ \E g \in Gets, ok \in BOOLEAN : BlockingWrite(g, ok)
    \/ \E g \in Gets : StreamError(g)
    \/ \E g \in Gets : StreamEnd(g)

(***************************************************************************)
(* The gateway's front: route_request of src/router.rs, and the handlers   *)
(* head_object and list_objects of src/s3_handler.rs with the size cache   *)
(* they share.  The size cache is a std::sync::RwLock around a HashMap;    *)
(* its guards are taken and dropped in steps of their own, so that a       *)
(* request is seen while it holds one.                                     *)
(***************************************************************************)
Reqs == 1..NReqs

\* An Option: None is the empty sequence, Some(v) the sequence of v alone.
None == <<>>
Some(v) == <<v>>

\* A request's URI path is the sequence of its segments ("/b1/k" is
\* <<"b1", "k">>), its query a set of (name, value) pairs, its headers a set
\* of (name, value) pairs; an Authorization value is (scheme, rest).
QListType2 == <<"list-type", 2>>
ListQueries ==
    {{QListType2},
     {QListType2, <<"prefix", "p">>},
     {QListType2, <<"continuation-token", "c">>},
     {QListType2, <<"start-after", "s">>},
     {QListType2, <<"max-keys", "1">>},
     {<<"list-type", 1>>}}
TokenX == <<"x-amz-security-token", <<"", "tok">>>>
TokenHeaders == {{}, {TokenX}, {<<"authorization", <<"Bearer ", "tok">>>>}}
RangeHeader == <<"range", "bytes=0-0">>

Request(m, p, q, h) == [method |-> m, path |-> p, query |-> q, headers |-> h]

\* The requests of the model.
Requests ==
    {Request("HEAD", <<"b1", "k">>, {}, h) : h \in TokenHeaders}
    \cup {Request("GET", <<"b1">>, q, {TokenX}) : q \in ListQueries}
    \cup {Request("HEAD", <<"b2", "k">>, {}, {TokenX}),
          Request("GET", <<"b1", "k">>, {}, {TokenX, RangeHeader}),
          Request("GET", <<"b1", "k">>, {}, {}),
          Request("GET", <<"stream">>, {QListType2}, {}),
          Request("HEAD", <<"b1", "k">>, {QListType2}, {}),
          Request("GET", <<"b1", "k">>, {<<"max-keys", "1">>}, {}),
          Request("PUT", <<"b1", "k">>, {}, {})}

NoRequest == Request("", <<>>, {}, {})

\* HeaderMap::get
Header(h, name) ==
    IF \E p \in h : p[1] = name
      THEN Some((CHOOSE p \in h : p[1] = name)[2])
      ELSE None

\* str::to_ascii_lowercase, on the schemes of the model.
to_ascii_lowercase(s) == IF s \in {"Bearer ", "BEARER ", "bearer "} THEN "bearer " ELSE s

\* Credentials::token_from_headers: x-amz-security-token, else
\* authorization with a leading "bearer " (in any case) cut off; Err
\* (TokenMissing) when neither header is there.
TokenMissing == [kind |-> "TokenMissing", token |-> ""]
token_from_headers(h) ==
    LET first == Header(h, "x-amz-security-token")
        token == IF first = None THEN Header(h, "authorization") ELSE first
    IN IF token = None THEN TokenMissing
       ELSE IF to_ascii_lowercase(token[1][1]) = "bearer "
              THEN [kind |-> "Ok", token |-> token[1][2]]
              ELSE [kind |-> "Ok", token |-> token[1][1] \o token[1][2]]

\* serde_urlencoded::from_str::<SearchParameters>: the struct has the
\* fields list-type, prefix, continuation-token and start-after and denies
\* every other name.
SearchParametersFields == {"list-type", "prefix", "continuation-token", "start-after"}
QueryField(q, name) ==
    IF \E p \in q : p[1] = name
      THEN Some((CHOOSE p \in q : p[1] = name)[2])
      ELSE None
SearchParameters(q) ==
    IF \E p \in q : p[1] \notin SearchParametersFields
      THEN [kind |-> "Err"]
      ELSE [kind |-> "Ok",
            list_type |-> QueryField(q, "list-type"),
            prefix |-> QueryField(q, "prefix"),
            continuation_token |-> QueryField(q, "continuation-token"),
            start_after |-> QueryField(q, "start-after")]

\* The path "/" \o segment \o "/" \o ... of a sequence of segments.
RECURSIVE JoinPath(_)
JoinPath(segs) ==
    IF segs = <<>> THEN ""
    ELSE IF Len(segs) = 1 THEN segs[1]
    ELSE segs[1] \o "/" \o JoinPath(Tail(segs))

\* let bucket = parts[1]; let key = path.get(bucket.len() + 2..).or(Some(""))
Bucket(segs) == segs[1]
Key(segs) == JoinPath(Tail(segs))

\* Option::unwrap_or_default on a String.
unwrap_or_default(o) == IF o = None THEN "" ELSE o[1]

\* What the backend holds: object k of bucket b1 (ObjLen bytes) and
\* object k of bucket b2 (one byte).
BackendSize(bucket, key) == IF bucket = "b1" THEN ObjLen ELSE 1

\* The backend's answers to a signed HEAD: a transport failure (Err from
\* execute) or a response (Ok from execute, whatever its status), with or
\* without a content-length header.
HeadAnswers(bucket, key) ==
    {[kind |-> "transport", status |-> 0, hasCl |-> FALSE, cl |-> 0],
     [kind |-> "resp", status |-> 200, hasCl |-> TRUE, cl |-> BackendSize(bucket, key)],
     [kind |-> "resp", status |-> 200, hasCl |-> FALSE, cl |-> 0],
     [kind |-> "resp", status |-> 404, hasCl |-> TRUE, cl |-> Len(ErrBody)],
     [kind |-> "resp", status |-> 404, hasCl |-> FALSE, cl |-> 0]}

\* The backend's answers to a signed LIST: a transport failure, a listing
\* of the bucket's (key, size) entries, a 2xx body that is no
\* ListBucketResult, or an error status with its error document.
\* The body text is kept as its length, whether it parses, and the entries
\* ListBucketResult::from_str finds in it.
ListAnswers(bucket) ==
    {[kind |-> "transport", status |-> 0, parses |-> FALSE, contents |-> <<>>, len |-> 0],
     [kind |-> "resp", status |-> 200, parses |-> TRUE,
      contents |-> <<<<"k", BackendSize(bucket, "k")>>>>, len |-> 2],
     [kind |-> "resp", status |-> 200, parses |-> FALSE, contents |-> <<>>, len |-> 1],
     [kind |-> "resp", status |-> 403, parses |-> FALSE, contents |-> <<>>, len |-> 1]}

AllHeadAnswers == UNION {HeadAnswers(b, "k") : b \in {"b1", "b2"}}
AllListAnswers == UNION {ListAnswers(b) : b \in {"b1", "b2"}}
NoBackendAnswer == [kind |-> "none"]

\* A response: status, content-length header (when there is one), body.
Response(st, hasCl, cl, body) ==
    [status |-> st, hasCl |-> hasCl, cl |-> cl, body |-> body]
NoResponse == Response(0, FALSE, 0, <<>>)

\* HashMap::insert on the size cache.
Insert(map, key, size) ==
    [k \in DOMAIN map \cup {key} |-> IF k = key THEN size ELSE map[k]]

\* contents.iter().for_each(|obj| size_cache.insert(obj.key, obj.size))
RECURSIVE InsertAll(_, _)
InsertAll(map, contents) ==
    IF contents = <<>> THEN map
    ELSE InsertAll(Insert(map, contents[1][1], contents[1][2]), Tail(contents))

GateInit ==
    /\ rpc = [r \in Reqs |-> "idle"]
    /\ req = [r \in Reqs |-> NoRequest]
    /\ route = [r \in Reqs |-> [arm |-> "none", args |-> <<>>]]
    /\ resp = [r \in Reqs |-> NoResponse]
    /\ size_cache = <<>>
    /\ sizeReaders = {}
    /\ sizeWriter = 0
    /\ hans = [r \in Reqs |-> NoBackendAnswer]
    /\ calls = [r \in Reqs |-> <<>>]
    /\ streamed = [r \in Reqs |-> 0]

\* A request arrives at route_request.  Requests are numbered in the order
\* they arrive.
Arrive(r, q) ==
    /\ rpc[r] = "idle"
    /\ \A d \in Reqs : d < r => rpc[d] # "idle"
    /\ rpc' = [rpc EXCEPT ![r] = "route"]
    /\ req' = [req EXCEPT ![r] = q]
    /\ UNCHANGED <<route, resp, size_cache, sizeReaders, sizeWriter, hans,
                   calls, streamed>>
    /\ UNCHANGED <<credVars, objVars>>

\* The arm of route_request's match for a method, a path and a parsed
\* query, or "bad_query" when the query does not parse.
Dispatch(method, segs, query) ==
    IF query.kind = "Err" THEN "bad_query"
    ELSE IF method = "GET" /\ segs = <<"stream">> THEN "stream"
    ELSE IF method = "GET" /\ query.list_type = Some(2) THEN "list_objects"
    ELSE IF method = "GET" THEN "get_object"
    ELSE IF method = "HEAD" THEN "head_object"
    ELSE "not_found"

\* The arguments route_request hands to the handler of an arm.
Arguments(arm, rq, query) ==
    CASE arm = "list_objects" ->
           <<Bucket(rq.path), unwrap_or_default(query.prefix),
             query.continuation_token, query.start_after>>
      [] arm = "get_object" ->
           <<Bucket(rq.path), Key(rq.path), Header(rq.headers, "range")>>
      [] arm = "head_object" -> <<Bucket(rq.path), Key(rq.path)>>
      [] OTHER -> <<>>

\* route_request up to its first await: the query is parsed (400 when it
\* does not), bucket and key are cut out of the path, and the match on
\* (method, path, list-type) picks the handler.  list_objects sends its
\* signed request at once; get_object is the content cache above.
RouteRequest(r) ==
    /\ rpc[r] = "route"
    /\ LET query == SearchParameters(req[r].query)
           arm == Dispatch(req[r].method, req[r].path, query)
       IN /\ route' = [route EXCEPT ![r] = [arm |-> arm, args |-> Arguments(arm, req[r], query)]]
          /\ rpc' = [rpc EXCEPT ![r] =
                 CASE arm = "stream" -> "stream"
                   [] arm = "list_objects" -> "listreq"
                   [] arm = "get_object" -> "get"
                   [] arm = "head_object" -> "head"
                   [] OTHER -> "done"]
          /\ resp' = [resp EXCEPT ![r] =
                 CASE arm = "bad_query" ->
                        Response(400, FALSE, 0, <<"Failed to parse query string">>)
                   [] arm = "not_found" -> Response(404, FALSE, 0, <<"Not found.\n">>)
                   [] arm = "stream" -> Response(200, FALSE, 0, <<>>)
                   [] OTHER -> @]
          /\ calls' = [calls EXCEPT ![r] =
                 IF arm = "list_objects" THEN Append(@, "LIST") ELSE @]
    /\ UNCHANGED <<req, size_cache, sizeReaders, sizeWriter, hans, streamed>>
    /\ UNCHANGED <<credVars, objVars>>

\* The task of the /stream arm: every second one chunk goes to the
\* response and to test.txt; the loop breaks when the send fails.
StreamInterval(r, sent) ==
    /\ rpc[r] = "stream"
    /\ IF sent
         THEN /\ streamed[r] < MaxChunks
              /\ streamed' = [streamed EXCEPT ![r] = @ + 1]
              /\ resp' = [resp EXCEPT ![r].body = Append(@, "foobar\n")]
              /\ rpc' = rpc
         ELSE /\ rpc' = [rpc EXCEPT ![r] = "done"]
              /\ UNCHANGED <<streamed, resp>>
    /\ UNCHANGED <<req, route, size_cache, sizeReaders, sizeWriter, hans, calls>>
    /\ UNCHANGED <<credVars, objVars>>

\* head_object: let size_cache = self.size_cache.read().unwrap();
HeadLock(r) ==
    /\ rpc[r] = "head"
    /\ sizeWriter = 0
    /\ sizeReaders' = sizeReaders \cup {r}
    /\ rpc' = [rpc EXCEPT ![r] = "lookup"]
    /\ UNCHANGED <<req, route, resp, size_cache, sizeWriter, hans, calls, streamed>>
    /\ UNCHANGED <<credVars, objVars>>

\* A variant of HeadLookup that never looks into the map: the read guard
\* is dropped and the signed HEAD goes out whatever the size cache holds.
HeadLookupAlwaysAsks(r) ==
    /\ rpc[r] = "lookup"
    /\ sizeReaders' = sizeReaders \ {r}
    /\ rpc' = [rpc EXCEPT ![r] = "headreq"]
    /\ calls' = [calls EXCEPT ![r] = Append(@, "HEAD")]
    /\ UNCHANGED <<req, route, resp, size_cache, sizeWriter, hans, streamed>>
    /\ UNCHANGED <<credVars, objVars>>

\* head_object: match size_cache.get(key).  Some(size) returns 200 with
\* that content-length; on None the block ends.  Either way the read guard
\* is dropped, and on None the signed HEAD goes out to the backend.
HeadLookup(r) ==
    /\ rpc[r] = "lookup"
    /\ sizeReaders' = sizeReaders \ {r}
    /\ LET key == Key(req[r].path) IN
         IF key \in DOMAIN size_cache
           THEN /\ resp' = [resp EXCEPT ![r] = Response(200, TRUE, size_cache[key], <<>>)]
                /\ rpc' = [rpc EXCEPT ![r] = "done"]
                /\ calls' = calls
           ELSE /\ rpc' = [rpc EXCEPT ![r] = "headreq"]
                /\ calls' = [calls EXCEPT ![r] = Append(@, "HEAD")]
                /\ resp' = resp
    /\ UNCHANGED <<req, route, size_cache, sizeWriter, hans, streamed>>
    /\ UNCHANGED <<credVars, objVars>>

\* head_object: self.request(HEAD ...).await returns.  Err is answered by
\* handle_sdk_error; Ok (a response of any status) has its content-length
\* header unwrapped and parsed (a panic when absent).
HeadAnswer(r, ans) ==
    /\ rpc[r] = "headreq"
    /\ ans \in HeadAnswers(Bucket(req[r].path), Key(req[r].path))
    /\ hans' = [hans EXCEPT ![r] = ans]
    /\ IF ans.kind = "transport"
         THEN /\ resp' = [resp EXCEPT ![r] = Response(handle_sdk_error(ans), FALSE, 0, <<>>)]
              /\ rpc' = [rpc EXCEPT ![r] = "done"]
         ELSE /\ rpc' = [rpc EXCEPT ![r] = IF ans.hasCl THEN "headins" ELSE "panicked"]
              /\ resp' = resp
    /\ UNCHANGED <<req, route, size_cache, sizeReaders, sizeWriter, calls, streamed>>
    /\ UNCHANGED <<credVars, objVars>>

\* head_object: self.size_cache.write().unwrap().insert(key, cl), the write
\* guard living for this statement only, and the 200 response.
HeadInsert(r) ==
    /\ rpc[r] = "headins"
    /\ sizeWriter = 0 /\ sizeReaders = {}
    /\ size_cache' = Insert(size_cache, Key(req[r].path), hans[r].cl)
    /\ resp' = [resp EXCEPT ![r] = Response(200, TRUE, hans[r].cl, <<>>)]
    /\ rpc' = [rpc EXCEPT ![r] = "done"]
    /\ UNCHANGED <<req, route, sizeReaders, sizeWriter, hans, calls, streamed>>
    /\ UNCHANGED <<credVars, objVars>>

\* list_objects: self.request(GET ...).await and text().await return.  Err
\* is answered by handle_sdk_error; a 2xx body is parsed (a panic when it is
\* no ListBucketResult); any other status is passed on with its body.
ListAnswer(r, ans) ==
    /\ rpc[r] = "listreq"
    /\ ans \in ListAnswers(Bucket(req[r].path))
    /\ hans' = [hans EXCEPT ![r] = ans]
    /\ IF ans.kind = "transport"
         THEN /\ resp' = [resp EXCEPT ![r] = Response(handle_sdk_error(ans), FALSE, 0, <<>>)]
              /\ rpc' = [rpc EXCEPT ![r] = "done"]
         ELSE IF ans.status \in 200..299
         THEN /\ rpc' = [rpc EXCEPT ![r] = IF ans.parses THEN "listlock" ELSE "panicked"]
              /\ resp' = resp
         ELSE /\ resp' = [resp EXCEPT ![r] = Response(ans.status, TRUE, ans.len, ans.contents)]
              /\ rpc' = [rpc EXCEPT ![r] = "done"]
    /\ UNCHANGED <<req, route, size_cache, sizeReaders, sizeWriter, calls, streamed>>
    /\ UNCHANGED <<credVars, objVars>>

\* list_objects: let mut size_cache = self.size_cache.write().unwrap();
ListLock(r) ==
    /\ rpc[r] = "listlock"
    /\ sizeWriter = 0 /\ sizeReaders = {}
    /\ sizeWriter' = r
    /\ rpc' = [rpc EXCEPT ![r] = "listins"]
    /\ UNCHANGED <<req, route, resp, size_cache, sizeReaders, hans, calls, streamed>>
    /\ UNCHANGED <<credVars, objVars>>

\* list_objects: every listed (key, size) is inserted, the write guard is
\* dropped at the end of the block, and the backend's status and body are
\* returned.
ListInsert(r) ==
    /\ rpc[r] = "listins"
    /\ size_cache' = InsertAll(size_cache, hans[r].contents)
    /\ sizeWriter' = 0
    /\ resp' = [resp EXCEPT ![r] =
           Response(hans[r].status, TRUE, hans[r].len, hans[r].contents)]
    /\ rpc' = [rpc EXCEPT ![r] = "done"]
    /\ UNCHANGED <<req, route, sizeReaders, hans, calls, streamed>>
    /\ UNCHANGED <<credVars, objVars>>

GateNext ==
    \/ \E r \in Reqs, q \in Requests : Arrive(r, q)
    \/ \E r \in Reqs : RouteRequest(r)
    \/ \E r \in Reqs, sent \in BOOLEAN : StreamInterval(r, sent)
    \/ \E r \in Reqs : HeadLock(r)
    \/ \E r \in Reqs : HeadLookup(r)
    \/ \E r \in Reqs, ans \in AllHeadAnswers : HeadAnswer(r, ans)
    \/ \E r \in Reqs : HeadInsert(r)
    \/ \E r \in Reqs, ans \in AllListAnswers : ListAnswer(r, ans)
    \/ \E r \in Reqs : ListLock(r)
    \/ \E r \in Reqs : ListInsert(r)

Init == CredInit /\ ObjInit /\ GateInit

CredSpec == Init /\ [][CredNext]_vars

\* The credential cache under the scheduling of the runtime: a call that
\* can take its next step takes it in the end (a ready task is polled, a
\* thread waiting for the map's lock gets it once it is free), and every
\* federation exchange that was started comes back.
CredFairness ==
    \A c \in Calls :
        /\ WF_vars(CacheRead(c))
        /\ WF_vars(CacheInsert(c))
        /\ WF_vars(\E ans \in FedAnswers : FromTokenReturn(c, ans))
        /\ WF_vars(WaitFor(c))
        /\ WF_vars(CacheRemove(c))
        /\ WF_vars(DropGuard(c))

CredFairSpec == Init /\ [][CredNext]_vars /\ CredFairness

ObjSpec == Init /\ [][ObjNext]_vars

GateSpec == Init /\ [][GateNext]_vars

\* The credential cache and the size cache are two locks with no state in
\* common (route_request calls no get_credentials), so the discipline of
\* both is followed on runs that serve get_credentials calls or inbound
\* requests.
CredQuiet == \A c \in Calls : cpc[c] = "idle"
GateQuiet == \A r \in Reqs : rpc[r] = "idle"

LockNext ==
    \/ \E c \in Calls, t \in Tokens : GateQuiet /\ GetCredentials(c, t)
    \/ \E c \in Calls : CacheRead(c)
    \/ \E c \in Calls : CacheInsert(c)
    \/ \E c \in Calls, ans \in FedAnswers : FromTokenReturn(c, ans)
    \/ \E c \in Calls : WaitFor(c)
    \/ \E c \in Calls : CacheRemove(c)
    \/ \E c \in Calls : DropGuard(c)
    \/ GateQuiet /\ Tick
    \/ \E r \in Reqs, q \in Requests : CredQuiet /\ now = 0 /\ Arrive(r, q)
    \/ \E r \in Reqs : RouteRequest(r)
    \/ \E r \in Reqs, sent \in BOOLEAN : StreamInterval(r, sent)
    \/ \E r \in Reqs : HeadLock(r)
    \/ \E r \in Reqs : HeadLookup(r)
    \/ \E r \in Reqs, ans \in AllHeadAnswers : HeadAnswer(r, ans)
    \/ \E r \in Reqs : HeadInsert(r)
    \/ \E r \in Reqs, ans \in AllListAnswers : ListAnswer(r, ans)
    \/ \E r \in Reqs : ListLock(r)
    \/ \E r \in Reqs : ListInsert(r)

LockSpec == Init /\ [][LockNext]_vars

(***************************************************************************)
(* Claims about the credential cache, checked under CredSpec.              *)
(***************************************************************************)
\* The call that ran the exchange of slot c.
Fetcher(c) == cpc[c] = "fetch" \/ fedOut[c] # NoResult

\* C1: for any token, while no federation exchange for it has returned
\* (every call so far started before the first resolved), from_token has
\* been invoked at most once for it, whatever the interleaving.
C1_ExchangeOnce ==
    \A t \in Tokens : fedResolved[t] = 0 => fedCalls[t] <= 1

\* C2: when the exchange of a slot succeeds with credentials that are not
\* expired, the call that ran it and every call that waited on that slot
\* return Ok with exactly those credentials.
C2_AllGetSameCreds ==
    \A c \in Calls :
        (fedOut[c].kind = "Ok" /\ ~is_expired(fedOut[c].creds, retNow[c])) =>
            /\ cres[c] = fedOut[c]
            /\ \A w \in Calls :
                 (cpc[w] = "done" /\ servedBy[w] = c) => cres[w] = fedOut[c]

\* C3: when the exchange of a slot fails, every call that waited on that
\* slot returns the failure the fetching call returned.
C3_WaitersGetSameFailure ==
    \A c, w \in Calls :
        (fedOut[c].kind = "RequestFailed" /\ cpc[w] = "done" /\ servedBy[w] = c)
            => cres[w] = cres[c]

\* C4: get_credentials never returns Ok with credentials whose expiration
\* is at or before the clock at the moment of return.
C4_NeverReturnsExpired ==
    \A c \in Calls : cres[c].kind = "Ok" => cres[c].creds.exp > retNow[c]

\* C5: among the calls that saw the same credentials expired, at most one
\* runs the fresh federation exchange.
C5_OneRefetchPerExpiry ==
    \A x \in Calls :
        Cardinality({c \in Calls : cause[c] = x /\ Fetcher(c)}) <= 1

\* C15: every failure of the federation exchange comes back from
\* get_credentials as a typed error: a 2xx answer whose body does not parse
\* as CredentialsParse, any other failure as RequestFailed with the status
\* the exchange saw; the fetching call never crashes on it.
C15_ExchangeFailuresAreTyped ==
    \A c \in Calls :
        /\ fedOut[c].kind = "Panic" => cres[c] = CredentialsParse
        /\ fedOut[c].kind = "RequestFailed" => cres[c] = fedOut[c]
        /\ fedOut[c].kind \in {"Panic", "RequestFailed"} => cpc[c] = "done"

\* C16: the remove of a call that saw expired credentials deletes nothing
\* but the slot that call read: the entry under the hash is that slot (or
\* is already gone) at the step that removes it.
C16_RemoveOnlyStale ==
    [][\A c \in Calls :
          (cpc[c] = "remove" /\ cpc'[c] = "removed") =>
              cache[Hash(ctok[c])] \in {0, item[c]}]_vars

\* The federation exchange of slot c has failed: from_token returned Err
\* or crashed on the body.
ExchangeFailed(c) == fedOut[c].kind \in {"RequestFailed", "Panic"}

\* The entry under the hash of token t is a slot whose exchange has failed.
FailedEntry(t) == cache[Hash(t)] # 0 /\ ExchangeFailed(cache[Hash(t)])

\* C22, the steps: while the entry of a token is a slot whose exchange has
\* failed, no step removes or replaces the entry and no step invokes the
\* federation exchange for the token again.
C22_FailedEntryStays ==
    \A t \in Tokens :
        FailedEntry(t) =>
            /\ cache'[Hash(t)] = cache[Hash(t)]
            /\ fedCalls'[t] = fedCalls[t]

\* C22, the results: a call that took a slot whose exchange has failed
\* returns CredentialsParse.
C22_FailedEntryAnswersParse ==
    \A w, c \in Calls :
        (cpc[w] = "done" /\ servedBy[w] = c /\ ExchangeFailed(c)) =>
            cres[w] = CredentialsParse

\* C22: after the federation exchange for a token has failed, its pending
\* entry stays in the credential cache for ever, and every later
\* get_credentials of the token returns CredentialsParse without a new
\* federation exchange: the token is never retried.
C22_FailedTokenNeverRetried ==
    [](C22_FailedEntryAnswersParse) /\ [][C22_FailedEntryStays]_vars

\* C23: every get_credentials call that was made returns in the end, Ok or
\* Err, when every federation exchange comes back: no call waits on a
\* pending slot for ever and the remove-and-retry loop ends.  A call whose
\* own exchange crashed on its answer is left out (its exchange has not
\* come back).  Checked under CredFairSpec.
C23_EveryCallReturns ==
    \A c \in Calls :
        (cpc[c] # "idle") ~> (cpc[c] = "done" \/ fedOut[c].kind = "Panic")

\* What holds under CredFairSpec: every call that was made ends, by
\* returning or by the crash of its task; none waits or loops for ever.
EveryCallEnds ==
    \A c \in Calls : (cpc[c] # "idle") ~> (cpc[c] \in {"done", "panicked"})

\* C24: get_credentials(T) returns only credentials that a federation
\* exchange produced for the same token T, whatever the interleaving of
\* callers with different tokens, expiry removal and re-insertion
\* included: the credentials a call returns are those from_token returned
\* to a call that was given the same token.
C24_OnlyOwnTokensCredentials ==
    \A c \in Calls :
        cres[c].kind = "Ok" =>
            LET f == cres[c].creds.id IN
                /\ f \in Calls
                /\ ctok[f] = ctok[c]
                /\ fedOut[f] = Ok(cres[c].creds)

\* C24's case: a call that saw the credentials of its token expired has
\* removed the entry, run a fresh exchange and returned Ok, a waiter or
\* fetcher of another token has returned Ok too, and both tokens have
\* their entry in the map.
C24_Witness ==
    \E w, d \in Calls :
        /\ ctok[w] # ctok[d]
        /\ cause[w] # 0 /\ cres[w].kind = "Ok"
        /\ cres[d].kind = "Ok"
        /\ cache[Hash(ctok[w])] # 0 /\ cache[Hash(ctok[d])] # 0

(***************************************************************************)
(* Claims about the content cache, checked under ObjSpec.                  *)
(***************************************************************************)
\* The backend answered the call's GET with an error.
BackendError(g) ==
    \/ bans[g].kind = "transport"
    \/ bans[g].kind = "resp" /\ bans[g].status \notin 200..299

\* The call's population took the whole backend stream of a successful
\* answer: its tee left the loop.
Completed(g) ==
    /\ bans[g].kind = "resp" /\ bans[g].status = 200 /\ bans[g].hasCl
    /\ gstatus[g] # 0
    /\ gpc[g] \in {"done", "panicked"}

\* One of the two calls ran its metadata check while the other was in flight.
Concurrent(p, q) == p \in peers[q] \/ q \in peers[p]

\* C6: a file visible under the final name holds exactly the bytes the
\* backend returned to a fetch of that (bucket, key, range), whole.
C6_FinalHoldsBackendBytes ==
    \A o \in Objects :
        finalName[Fname(o)] # 0 =>
            fileData[finalName[Fname(o)]] \in
                {bans[g].body : g \in {q \in Gets : gobj[q] = o /\ bans[q].kind = "resp"}}

\* C7: a population that is interrupted (its tee ended on a backend error,
\* a failed send or a failed write, or one of its disk writes failed) never
\* promotes its temporary file; a final entry is visible, and a call is
\* served from disk, only when some population of that key was promoted;
\* every other call issues its own backend GET.
C7_InterruptedNeverPublished ==
    /\ \A g \in Gets : (gpc[g] = "aborted" \/ werr[g]) => ~promoted[g]
    /\ \A o \in Objects :
         finalName[Fname(o)] # 0 => \E g \in Gets : gobj[g] = o /\ promoted[g]
    /\ \A g \in Gets :
         path[g] = "hit" => \E q \in Gets : gobj[q] = gobj[g] /\ promoted[q]
    /\ \A o \in Objects :
         backendGets[Fname(o)] =
             Cardinality({g \in Gets : gobj[g] = o /\ path[g] = "miss"})

\* C8: a get_object served from a final entry returns the bytes the
\* populating get_object returned, a content-length equal to their number,
\* and makes no backend request.
C8_RepeatGetSameBytes ==
    \A h \in Gets :
        (path[h] = "hit" /\ gpc[h] = "done") =>
            /\ gcl[h] = Len(gbody[h])
            /\ \E q \in Gets :
                 gobj[q] = gobj[h] /\ promoted[q] /\ gbody[h] = gbody[q]
            /\ bans[h] = NoAnswer

\* What C9 says of two concurrent calls on an empty cache, but for the
\* number of backend fetches: both are answered 200 with the same
\* content-length and the same bytes, and a final entry exists.
C9_SameResponse(p, q) ==
    /\ gstatus[p] = 200 /\ gstatus[q] = 200
    /\ gcl[p] = gcl[q]
    /\ gbody[p] = gbody[q]
    /\ finalName[Fname(gobj[p])] # 0

\* Two calls for the same (bucket, key), no Range header, that both missed
\* the cache while concurrent, and whose populations both ran to the end.
C9_Case(p, q) ==
    /\ p # q /\ gobj[p] = gobj[q] /\ gobj[p][3] = ""
    /\ path[p] = "miss" /\ path[q] = "miss"
    /\ Concurrent(p, q)
    /\ Completed(p) /\ Completed(q)

\* C9 as stated: in that case exactly one backend fetch is made.
C9_OneBackendFetch ==
    \A p, q \in Gets :
        C9_Case(p, q) =>
            backendGets[Fname(gobj[p])] = 1 /\ C9_SameResponse(p, q)

\* C9 amended: in that case each call makes its own backend fetch (at
\* least two in all); both are answered 200 with the same content-length
\* and bytes, and the cache holds the one final entry of the triple.
C9_OneFetchPerCall ==
    \A p, q \in Gets :
        C9_Case(p, q) =>
            backendGets[Fname(gobj[p])] >= 2 /\ C9_SameResponse(p, q)

\* C9's case: two concurrent misses whose populations both ran to the end,
\* one renaming the shared temporary file, the other finding it gone.
C9_Witness == \E p, q \in Gets : C9_Case(p, q) /\ promoted[p] /\ gpc[q] = "panicked"

\* C10: a backend error on a miss is answered with the backend's status
\* (500 when there is none) and an empty body, never 200, and no file is
\* created from it.
C10_BackendErrorPassedThrough ==
    \A g \in Gets :
        BackendError(g) =>
            /\ gstatus[g] \in {0, handle_sdk_error(bans[g])}
            /\ gstatus[g] # 200
            /\ gbody[g] = <<>>
            /\ fh[g] = 0 /\ ~promoted[g]

\* s is an initial segment of t.
IsPrefix(s, t) == Len(s) <= Len(t) /\ SubSeq(t, 1, Len(s)) = s

\* Call g runs a population: it took the miss path and its tee is running.
Populating(g) == path[g] = "miss" /\ gpc[g] = "tee"

\* C17, its parts about states: two populations of one key that run at
\* once write to different temporary files, and the file under the final
\* name is not one a population is still writing.
C17_OwnTemporaryFile ==
    /\ \A p, q \in Gets :
          (p # q /\ gobj[p] = gobj[q] /\ Populating(p) /\ Populating(q))
              => fh[p] # fh[q]
    /\ \A g \in Gets :
          Populating(g) => fh[g] # finalName[Fname(gobj[g])]

\* C17, its part about steps: the bytes read under a final name never
\* change once the name is visible.
C17_FinalBytesFixed ==
    \A f \in Fnames :
        finalName[f] # 0 =>
            /\ finalName'[f] # 0
            /\ fileData'[finalName'[f]] = fileData[finalName[f]]

\* C17: concurrent populations of one cache key each write to their own
\* temporary file, so neither truncates or overwrites the other's data, no
\* promotion publishes a file still being written, and the bytes of a
\* final entry never change after it became visible.
C17_PopulationsIsolated ==
    [](C17_OwnTemporaryFile) /\ [][C17_FinalBytesFixed]_vars

\* C18: once an interrupted population has ended without promoting, and
\* no other population of its key has run, no temporary file of that key
\* is left on disk.
C18_InterruptedTempDiscarded ==
    \A g \in Gets :
        (/\ gpc[g] = "aborted"
         /\ \A q \in Gets \ {g} : ~(gobj[q] = gobj[g] /\ path[q] = "miss"))
            => tmpName[Fname(gobj[g])] = 0

\* C20: while a population runs, its chunks go out and to disk one at a
\* time in arrival order: at every moment the bytes delivered to its
\* response and the bytes in its temporary file are both initial segments
\* of the backend stream.
C20_ChunksInArrivalOrder ==
    \A g \in Gets :
        Populating(g) =>
            /\ IsPrefix(gbody[g], bans[g].body)
            /\ IsPrefix(fileData[fh[g]], bans[g].body)

(***************************************************************************)
(* Claims about the gateway's front and the size cache, checked under      *)
(* GateSpec.                                                               *)
(***************************************************************************)
\* Request r is a head_object call whose backend HEAD was answered with a
\* status outside 2xx.
HeadRefused(r) ==
    /\ route[r].arm = "head_object"
    /\ hans[r].kind = "resp"
    /\ hans[r].status \notin 200..299

\* Some finished request observed a size for key k in a 2xx answer: a HEAD
\* of the key or a LIST whose listing has it.
SizeObserved(k) ==
    \E q \in Reqs :
        /\ hans[q].kind = "resp"
        /\ hans[q].status \in 200..299
        /\ \/ route[q].arm = "head_object" /\ Key(req[q].path) = k
           \/ /\ route[q].arm = "list_objects"
              /\ \E i \in DOMAIN hans[q].contents : hans[q].contents[i][1] = k

\* C11: a head_object whose backend HEAD is answered 404 (any status
\* outside 2xx) returns that status with an empty body, and the size cache
\* only ever holds sizes that a 2xx answer carried.
C11_HeadErrorNotCached ==
    /\ \A r \in Reqs :
         (HeadRefused(r) /\ rpc[r] = "done") =>
             resp[r].status = hans[r].status /\ resp[r].body = <<>>
    /\ \A k \in DOMAIN size_cache : SizeObserved(k)

\* C12: when the lookup of head_object finds an entry under the requested
\* key, the call answers 200 with that size as content-length and an empty
\* body, sends nothing to the backend and leaves the size cache as it is.
C12_HeadHitAnswersFromCache ==
    [][\A r \in Reqs :
          (rpc[r] = "lookup" /\ rpc'[r] # "lookup"
                /\ Key(req[r].path) \in DOMAIN size_cache) =>
              /\ rpc'[r] = "done"
              /\ resp'[r] = Response(200, TRUE, size_cache[Key(req[r].path)], <<>>)
              /\ calls'[r] = calls[r]
              /\ size_cache' = size_cache]_vars

\* C12's case: a head_object answered from the size cache after another
\* request filled it.
C12_Witness ==
    \E r \in Reqs :
        /\ route[r].arm = "head_object" /\ rpc[r] = "done"
        /\ calls[r] = <<>>
        /\ resp[r].status = 200
        /\ Key(req[r].path) \in DOMAIN size_cache

\* The calls that go to the backend.
BackendCalls == {"HEAD", "LIST", "GET"}

\* C13: a request calls the backend only after token_from_headers and then
\* get_credentials were called for it, and a request with neither
\* x-amz-security-token nor Authorization is answered 400 without any call
\* to the credential cache or the backend.
C13_CredentialsBeforeBackend ==
    \A r \in Reqs :
        /\ \A i \in DOMAIN calls[r] :
             calls[r][i] \in BackendCalls =>
                 \E j, k \in 1..(i - 1) :
                     /\ j < k
                     /\ calls[r][j] = "token_from_headers"
                     /\ calls[r][k] = "get_credentials"
        /\ (rpc[r] \notin {"idle", "route"}
                /\ token_from_headers(req[r].headers) = TokenMissing) =>
               resp[r].status = 400 /\ calls[r] = <<>>

\* The handler the interface table gives a request: LIST for a GET whose
\* query has list-type=2, GET object for any other GET, HEAD object for a
\* HEAD, 404 for the rest.
TableArm(rq) ==
    IF rq.method = "GET" /\ QListType2 \in rq.query THEN "list_objects"
    ELSE IF rq.method = "GET" THEN "get_object"
    ELSE IF rq.method = "HEAD" THEN "head_object"
    ELSE "not_found"

\* C14: route_request dispatches by method and list-type only, whatever the
\* path and whichever of prefix, continuation-token, start-after and
\* max-keys the query has; get_object is handed the Range header.
C14_DispatchByMethodAndQuery ==
    \A r \in Reqs :
        route[r].arm # "none" =>
            /\ route[r].arm = TableArm(req[r])
            /\ route[r].arm = "get_object" =>
                 route[r].args[3] = Header(req[r].headers, "range")

\* The sizes the requests of the run have seen for object k of bucket b:
\* the content-length of a backend HEAD of that bucket and key, and the
\* size a LIST of that bucket gave for the key.
SizesObservedFor(b, k) ==
    {hans[q].cl : q \in {x \in Reqs :
        /\ route[x].arm = "head_object"
        /\ Bucket(req[x].path) = b /\ Key(req[x].path) = k
        /\ hans[x].kind = "resp" /\ hans[x].hasCl}}
    \cup {e[2] : e \in UNION {{hans[q].contents[i] : i \in DOMAIN hans[q].contents} :
        q \in {x \in Reqs :
            /\ route[x].arm = "list_objects"
            /\ Bucket(req[x].path) = b
            /\ hans[x].kind = "resp" /\ hans[x].parses}} \cap
        {<<k, n>> : n \in 0..ObjLen}}

\* Request r is a head_object call that was answered from the size cache.
AnsweredFromCache(r) ==
    /\ route[r].arm = "head_object" /\ rpc[r] = "done"
    /\ calls[r] = <<>>
    /\ resp[r].status = 200

\* C21: a head_object of bucket B and key K that is answered from the size
\* cache returns a size that was observed for object K of bucket B, never
\* one a HEAD or LIST of another bucket recorded under the same key.
C21_SizeOfTheSameBucket ==
    \A r \in Reqs :
        AnsweredFromCache(r) =>
            resp[r].cl \in SizesObservedFor(Bucket(req[r].path), Key(req[r].path))

(***************************************************************************)
(* The lock discipline of both maps, checked under LockSpec.               *)
(***************************************************************************)
\* A get_credentials call suspended in an await: the federation call of
\* from_token, or wait_for on a slot.
CredSuspended(c) == cpc[c] \in {"fetch", "wait"}

\* A request suspended in an await of its handler: the backend HEAD, the
\* backend LIST and its body, the interval of the /stream task.
GateSuspended(r) == rpc[r] \in {"headreq", "listreq", "stream"}

\* C19: no task is suspended in an await while it holds a read or write
\* guard of the credential-cache map or of the size-cache map.
C19_NoGuardAcrossAwait ==
    /\ \A c \in Calls :
         CredSuspended(c) => c \notin credReaders /\ credWriter # c
    /\ \A r \in Reqs :
         GateSuspended(r) => r \notin sizeReaders /\ sizeWriter # r

\* C19's case: a head_object awaits its backend HEAD, its read guard
\* dropped, while a list_objects holds the write guard of the same map.
C19_Witness ==
    \E r, q \in Reqs :
        /\ rpc[r] = "headreq" /\ calls[r] = <<"HEAD">>
        /\ rpc[q] = "listins" /\ sizeWriter = q

====
